---- MODULE Spec2Model ----
(***************************************************************************)
(* A model of zeek-log-query.py: the header scanner (get_log_metadata),    *)
(* the schema grouping loop (log_collections), the per-column decode       *)
(* expressions and the view builder, and the execution / streaming loop    *)
(* with its result value formatting.                                       *)
(*                                                                         *)
(* Text is modelled as a sequence of tokens.  The structural characters    *)
(* "[", "]", "{", "}", "," and " " are tokens of their own; every other    *)
(* token ("10.0.0.1", "True", "(empty)", "a") stands for a run of          *)
(* characters that holds none of the structural ones.                      *)
(***************************************************************************)
EXTENDS Integers, Sequences, FiniteSets, TLC

VARIABLES
    pc,              \* position of the running stage
    scanLines,       \* SpecScan: the line stream of the file being scanned
    scanResult,      \* SpecScan: what get_log_metadata returned
    colType,         \* SpecCodec: the declared type token of the column
    val,             \* SpecCodec: an engine value of that column
    text,            \* SpecCodec: the text the formatter wrote for val
    back,            \* SpecCodec: the value the column's decode expression reads from text
    raw,             \* SpecCodec: a raw cell of a log file
    dec,             \* SpecCodec: the value the decode expression reads from raw
    fs,              \* SpecGroup: the header lines of every candidate file, by path
    all_files,       \* SpecGroup: all_files, in the order iteration yields its members
    gidx,            \* SpecGroup: position of the grouping / view loop
    log_collections, \* SpecGroup: log_collections, in insertion order
    views,           \* SpecGroup: the views created so far
    run,             \* SpecGroup: 1 in the first run of the pipeline, 2 in the second
    first,           \* SpecGroup: what the first run built
    description,     \* SpecStream: the column names the cursor reports
    nrows,           \* SpecStream: the number of rows the query yields
    res,             \* SpecStream: "none" until con.execute returns the cursor
    fetched,         \* SpecStream: rows the cursor has handed out
    chunk,           \* SpecStream: rows of the current page not yet printed
    stdout,          \* SpecStream: the lines printed to the result stream
    stderr,          \* SpecStream: the lines printed to the side channel
    row_count        \* SpecStream: row_count

codecVars == <<colType, val, text, back, raw, dec>>
scanVars == <<scanLines, scanResult>>
groupVars == <<fs, all_files, gidx, log_collections, views, run, first>>
streamVars == <<description, nrows, res, fetched, chunk, stdout, stderr, row_count>>
vars == <<pc, scanVars, codecVars, groupVars, streamVars>>

Idle == "idle"

\* The variables of the stages a specification does not run.
ScanIdle == scanLines = Idle /\ scanResult = Idle
CodecIdle ==
    /\ colType = Idle /\ val = Idle /\ text = Idle
    /\ back = Idle /\ raw = Idle /\ dec = Idle
GroupIdle ==
    /\ fs = Idle /\ all_files = Idle /\ gidx = 0 /\ log_collections = Idle
    /\ views = Idle /\ run = 0 /\ first = Idle
StreamIdle ==
    /\ description = Idle /\ nrows = 0 /\ res = Idle /\ fetched = 0
    /\ chunk = Idle /\ stdout = Idle /\ stderr = Idle /\ row_count = 0

(***************************************************************************)
(* Engine values as the Python client hands them to the formatter.         *)
(***************************************************************************)
NoneV == [k |-> "None"]
BoolV(b) == [k |-> "bool", b |-> b]
IntV(i) == [k |-> "int", i |-> i]
FloatV(r) == [k |-> "float", repr |-> r]
StrV(s) == [k |-> "str", s |-> s]
InetV(t, a, m) == [k |-> "dict", ip_type |-> t, address |-> a, mask |-> m]
ListV(items) == [k |-> "list", items |-> items]
\* A row that read_csv(ignore_errors=True) drops because a cell does not cast.
RowDropped == [k |-> "dropped"]

\* The addresses of the model, with their canonical text.
\* 167772161 = 10.0.0.1, 167772162 = 10.0.0.2, 167772160 = 10.0.0.0, 1 = ::1.
AddrText ==
    [ p \in {<<1, 167772161>>, <<1, 167772162>>, <<1, 167772160>>, <<2, 1>>} |->
        CASE p = <<1, 167772161>> -> "10.0.0.1"
          [] p = <<1, 167772162>> -> "10.0.0.2"
          [] p = <<1, 167772160>> -> "10.0.0.0"
          [] p = <<2, 1>> -> "::1" ]

\* The prefix length of a host address of family t.
FullMask(t) == IF t = 1 THEN 32 ELSE 128

(***************************************************************************)
(* Result value formatting, lines 251-293.                                 *)
(***************************************************************************)
\* str(x) of Python for the values a cell or a list item can hold.
PyStr(v) ==
    CASE v.k = "None" -> <<"None">>
      [] v.k = "bool" -> IF v.b THEN <<"True">> ELSE <<"False">>
      [] v.k = "int" -> <<ToString(v.i)>>
      [] v.k = "float" -> <<v.repr>>
      [] v.k = "str" -> v.s
      [] v.k = "dict" -> <<"{'ip_type': ...}">>
      [] v.k = "list" -> <<"[...]">>

\* ipaddress.IPv4Address(n) / IPv6Address(n): raises outside the family's range.
AddressValid(t, a) ==
    /\ a >= 0
    /\ <<t, a>> \in DOMAIN AddrText

\* The INET branch shared by a top-level value and a list item:
\* [ok |-> FALSE] when the ipaddress constructor raises.
FormatInet(v) ==
    IF v.ip_type \in {1, 2}
    THEN IF AddressValid(v.ip_type, v.address)
         THEN [ok |-> TRUE, s |-> <<AddrText[<<v.ip_type, v.address>>]>>]
         ELSE [ok |-> FALSE, s |-> <<>>]
    ELSE [ok |-> TRUE, s |-> PyStr(v)]

\* One item of a list, lines 277-288.
FormatItem(item) ==
    IF item.k = "dict" THEN FormatInet(item) ELSE [ok |-> TRUE, s |-> PyStr(item)]

\* ','.join(parts)
RECURSIVE JoinComma(_)
JoinComma(parts) ==
    IF parts = <<>> THEN <<>>
    ELSE IF Len(parts) = 1 THEN parts[1]
    ELSE parts[1] \o <<",">> \o JoinComma(Tail(parts))

\* The list branch, lines 271-291.
FormatList(v) ==
    LET fi == [i \in 1..Len(v.items) |-> FormatItem(v.items[i])]
        raised == \E i \in 1..Len(fi) : ~fi[i].ok
    IN  IF raised
        THEN <<"[">> \o JoinComma([i \in 1..Len(v.items) |-> PyStr(v.items[i])]) \o <<"]">>
        ELSE <<"[">> \o JoinComma([i \in 1..Len(fi) |-> fi[i].s]) \o <<"]">>

\* One value of a result row, lines 252-293.
FormatValue(v) ==
    CASE v.k = "None" -> <<"-">>
      [] v.k = "bool" -> IF v.b THEN <<"T">> ELSE <<"F">>
      [] v.k = "dict" -> LET r == FormatInet(v) IN IF r.ok THEN r.s ELSE PyStr(v)
      [] v.k = "list" -> FormatList(v)
      [] OTHER -> PyStr(v)

(***************************************************************************)
(* Column plans, lines 112-218.  A type token is the sequence of its       *)
(* pieces: <<"addr">>, <<"vector[", "addr", "]">>, <<"set[", "bool", "]">>.*)
(***************************************************************************)
\* type_map.get(t, 'VARCHAR'), lines 112-132 and 142.
type_map(t) ==
    CASE t \in {<<"time">>, <<"interval">>, <<"double">>} -> "DOUBLE"
      [] t \in {<<"count">>, <<"int">>, <<"port">>} -> "BIGINT"
      [] t \in {<<"addr">>, <<"subnet">>} -> "INET"
      [] t = <<"bool">> -> "BOOLEAN"
      [] OTHER -> "VARCHAR"

\* t.startswith('vector['), t.startswith('set['), lines 145-146.
is_vector(t) == Len(t) >= 1 /\ t[1] = "vector["
is_set(t) == Len(t) >= 1 /\ t[1] = "set["

\* t[7:-1] and t[4:-1]: the token without its wrapper piece and its last piece.
elem_type(t) == SubSeq(t, 2, Len(t) - 1)

bracket_start(t) == IF is_vector(t) THEN "[" ELSE "{"
bracket_end(t) == IF is_vector(t) THEN "]" ELSE "}"

\* A raw cell: SQL NULL (an absent value, or the text read_csv's nullstr='-' turns
\* into NULL at line 224), or text.
NullCell == [null |-> TRUE, s |-> <<>>]
Cell(s) == [null |-> FALSE, s |-> s]
ReadCsvCell(c) == IF ~c.null /\ c.s = <<"-">> THEN NullCell ELSE c

\* REPLACE(s, ch, ''): every occurrence of the token removed.
Replace(s, ch) == SelectSeq(s, LAMBDA x : x # ch)

\* TRIM(s): the blanks at both ends removed.
RECURSIVE TrimLeft(_)
TrimLeft(s) == IF s # <<>> /\ Head(s) = " " THEN TrimLeft(Tail(s)) ELSE s
RECURSIVE TrimRight(_)
TrimRight(s) ==
    IF s # <<>> /\ s[Len(s)] = " " THEN TrimRight(SubSeq(s, 1, Len(s) - 1)) ELSE s
Trim(s) == TrimRight(TrimLeft(s))

\* string_split(s, ','): the pieces between the commas; one empty piece for ''.
RECURSIVE SplitFrom(_, _)
SplitFrom(s, cur) ==
    IF s = <<>> THEN <<cur>>
    ELSE IF Head(s) = "," THEN <<cur>> \o SplitFrom(Tail(s), <<>>)
    ELSE SplitFrom(Tail(s), Append(cur, Head(s)))
string_split(s) == SplitFrom(s, <<>>)

\* The engine's parse of address text: "a.b.c.d", "a.b.c.d/len", the v6 forms.
InetParse ==
    [ x \in {"10.0.0.1", "10.0.0.2", "10.0.0.0", "10.0.0.0/24", "::1"} |->
        CASE x = "10.0.0.1" -> InetV(1, 167772161, FullMask(1))
          [] x = "10.0.0.2" -> InetV(1, 167772162, FullMask(1))
          [] x = "10.0.0.0" -> InetV(1, 167772160, FullMask(1))
          [] x = "10.0.0.0/24" -> InetV(1, 167772160, 24)
          [] x = "::1" -> InetV(2, 1, FullMask(2)) ]

\* The engine's cast of text to a scalar type; [ok |-> FALSE] when it fails.
CastText(s, db_type) ==
    LET one == Len(s) = 1
        fail == [ok |-> FALSE, v |-> NoneV]
    IN  CASE db_type = "VARCHAR" -> [ok |-> TRUE, v |-> StrV(s)]
          [] db_type = "INET" ->
                IF one /\ s[1] \in DOMAIN InetParse
                THEN [ok |-> TRUE, v |-> InetParse[s[1]]] ELSE fail
          [] db_type = "BOOLEAN" ->
                IF one /\ s[1] \in {"T", "True", "true"} THEN [ok |-> TRUE, v |-> BoolV(TRUE)]
                ELSE IF one /\ s[1] \in {"F", "False", "false"}
                     THEN [ok |-> TRUE, v |-> BoolV(FALSE)] ELSE fail
          [] db_type = "BIGINT" ->
                IF one /\ s[1] \in {"1", "2"}
                THEN [ok |-> TRUE, v |-> IntV(IF s[1] = "1" THEN 1 ELSE 2)] ELSE fail
          [] db_type = "DOUBLE" ->
                IF one /\ s[1] \in {"1", "2", "1.5"}
                THEN [ok |-> TRUE, v |-> FloatV(IF s[1] = "1.5" THEN s[1] ELSE s[1] \o ".0")]
                ELSE fail

\* TRY_CAST(x AS db_type): NULL for NULL and for text that does not cast.
TRY_CAST(c, db_type) == IF c.null THEN NoneV ELSE CastText(c.s, db_type).v

\* CASE WHEN f = '-' OR f = '(empty)' OR f IS NULL OR f = '' THEN NULL, lines 151, 176.
IsNullCaseEmpty(c) == c.null \/ c.s = <<"-">> \/ c.s = <<"(empty)">> \/ c.s = <<>>
\* CASE WHEN f = '-' OR f IS NULL OR f = '' THEN NULL, lines 192, 207.
IsNullCase(c) == c.null \/ c.s = <<"-">> \/ c.s = <<>>

\* string_split(REPLACE(REPLACE(TRIM(f), bracket_start, ''), bracket_end, ''), ',')
SplitContainer(c, t) ==
    string_split(Replace(Replace(Trim(c.s), bracket_start(t)), bracket_end(t)))

\* The select expression of one column of declared type t applied to the cell c
\* that read_csv hands it, lines 148-218.
SelectCol(c, t) ==
    LET db_type == type_map(t)
        elem_db_type == type_map(elem_type(t))
    IN  IF db_type = "INET"
        THEN TRY_CAST(IF IsNullCaseEmpty(c) THEN NullCell ELSE c, "INET")
        ELSE IF is_vector(t) \/ is_set(t)
        THEN IF elem_db_type = "INET"
             THEN IF IsNullCaseEmpty(c) THEN NoneV
                  ELSE IF c.s = <<bracket_start(t), bracket_end(t)>> THEN NoneV
                  ELSE LET ps == SplitContainer(c, t)
                       IN  ListV([i \in 1..Len(ps) |-> TRY_CAST(Cell(Trim(ps[i])), "INET")])
             ELSE IF elem_db_type # "VARCHAR"
             THEN IF IsNullCase(c) THEN NoneV
                  ELSE IF c.s = <<bracket_start(t), bracket_end(t)>> THEN NoneV
                  ELSE LET ps == SplitContainer(c, t)
                       IN  ListV([i \in 1..Len(ps) |->
                                    TRY_CAST(Cell(Trim(ps[i])), elem_db_type)])
             ELSE IF IsNullCase(c) THEN NoneV
                  ELSE IF c.s = <<bracket_start(t), bracket_end(t)>> THEN NoneV
                  ELSE LET ps == SplitContainer(c, t)
                       IN  ListV([i \in 1..Len(ps) |-> StrV(ps[i])])
        ELSE \* the column is read with its mapped type by read_csv itself
             IF c.null THEN NoneV
             ELSE LET r == CastText(c.s, db_type) IN IF r.ok THEN r.v ELSE RowDropped

\* A cell of a log file as the column of declared type t of the view shows it.
Decode(c, t) == SelectCol(ReadCsvCell(c), t)

(***************************************************************************)
(* The header scanner, lines 24-42.  A line is the sequence of tokens that *)
(* line.strip().split('\t') yields; the stream ends where the sequence of  *)
(* lines ends; a read that raises is a line with err set.                  *)
(***************************************************************************)
Line(toks) == [err |-> FALSE, toks |-> toks]
ReadError == [err |-> TRUE, toks |-> <<>>]

\* range(15), line 29.
ScanBudget == 15

\* The 'no metadata' result, line 42, and a found header, line 39.
NoMetadata == [ok |-> FALSE, log_path |-> "", fields |-> <<>>, types |-> <<>>]
Metadata(p, f, t) == [ok |-> TRUE, log_path |-> p, fields |-> f, types |-> t]

\* line.startswith(...): the first tokens of the model that begin with the marker.
StartsWithPath(l) == l.toks[1] \in {"#path"}
StartsWithFields(l) == l.toks[1] \in {"#fields"}
StartsWithTypes(l) == l.toks[1] \in {"#types"}

\* The loop of lines 29-39 from line i on, with the values assigned so far
\* (have_path FALSE is log_path = None).
RECURSIVE ScanFrom(_, _, _, _, _, _)
ScanFrom(lines, i, have_path, log_path, fields, types) ==
    IF i > ScanBudget THEN NoMetadata
    ELSE IF i > Len(lines) THEN NoMetadata                 \* if not line: break
    ELSE LET l == lines[i] IN
         IF l.err THEN NoMetadata                           \* except Exception
         ELSE IF StartsWithPath(l)
         THEN IF Len(l.toks) < 2 THEN NoMetadata            \* IndexError, caught
              ELSE ScanFrom(lines, i + 1, TRUE, l.toks[2], fields, types)
         ELSE IF StartsWithFields(l)
         THEN ScanFrom(lines, i + 1, have_path, log_path, Tail(l.toks), types)
         ELSE IF StartsWithTypes(l)
         THEN LET ts == Tail(l.toks) IN
              IF have_path /\ log_path # "" /\ fields # <<>> /\ ts # <<>>
              THEN Metadata(log_path, fields, ts)
              ELSE ScanFrom(lines, i + 1, have_path, log_path, fields, ts)
         ELSE ScanFrom(lines, i + 1, have_path, log_path, fields, types)

get_log_metadata(lines) == ScanFrom(lines, 1, FALSE, "", <<>>, <<>>)

\* The lines a header is made of in the model.
PathLine == Line(<<"#path", "conn">>)
PathNoToken == Line(<<"#path">>)
PathEmpty == Line(<<"#path", "", "x">>)
FieldsLine == Line(<<"#fields", "ts", "uid">>)
FieldsNone == Line(<<"#fields">>)
TypesLine == Line(<<"#types", "time", "string">>)
TypesNone == Line(<<"#types">>)
OtherLine == Line(<<"#open", "2024-01-01">>)
LinePool == {PathLine, PathNoToken, PathEmpty, FieldsLine, FieldsNone,
             TypesLine, TypesNone, OtherLine, ReadError}

\* Lines of a header that are drawn freely from LinePool.
MaxDirectives == 3

\* Other lines that come before them: none, or enough to reach the scan budget.
Padding(n) == [i \in 1..n |-> OtherLine]
PadCounts == {0} \cup {n \in (ScanBudget - MaxDirectives)..ScanBudget : n >= 0}

ScanInputs ==
    { Padding(n) \o d : n \in PadCounts,
                        d \in UNION { [1..k -> LinePool] : k \in 0..MaxDirectives } }

ScanInit ==
    /\ pc = "scan"
    /\ scanLines \in ScanInputs
    /\ scanResult = NoMetadata
    /\ CodecIdle /\ GroupIdle /\ StreamIdle

\* One call of get_log_metadata.
ScanFile ==
    /\ pc = "scan"
    /\ scanResult' = get_log_metadata(scanLines)
    /\ pc' = "scanned"
    /\ UNCHANGED <<scanLines, codecVars, groupVars, streamVars>>

ScanNext == ScanFile

SpecScan == ScanInit /\ [][ScanNext]_vars

(***************************************************************************)
(* File discovery and the schema grouping loop, lines 46-95.  A path is    *)
(* the sequence of its code points; sorted() orders paths code point by    *)
(* code point.                                                             *)
(***************************************************************************)
\* a < b for Python strings.
RECURSIVE LexLess(_, _)
LexLess(a, b) ==
    IF b = <<>> THEN FALSE
    ELSE IF a = <<>> THEN TRUE
    ELSE IF Head(a) # Head(b) THEN Head(a) < Head(b)
    ELSE LexLess(Tail(a), Tail(b))

\* Insertion of x into the sorted sequence xs.
RECURSIVE InsertSorted(_, _)
InsertSorted(x, xs) ==
    IF xs = <<>> THEN <<x>>
    ELSE IF LexLess(x, Head(xs)) THEN <<x>> \o xs
    ELSE <<Head(xs)>> \o InsertSorted(x, Tail(xs))

RECURSIVE SortPaths(_)
SortPaths(xs) == IF xs = <<>> THEN <<>> ELSE InsertSorted(Head(xs), SortPaths(Tail(xs)))

\* A grouping loop that walks all_files in iteration order, unsorted.
UnsortedFiles(files) == files

\* all_files = sorted(all_files), line 80.
SortedFiles(files) == SortPaths(files)

\* "|".join(f_list), line 91.
RECURSIVE JoinBar(_)
JoinBar(f_list) ==
    IF f_list = <<>> THEN ""
    ELSE IF Len(f_list) = 1 THEN f_list[1]
    ELSE f_list[1] \o "|" \o JoinBar(Tail(f_list))

\* Position of the entry of xs whose field `key` is k; 0 when there is none.
IndexOf(xs, key, k) ==
    IF \E i \in 1..Len(xs) : xs[i][key] = k
    THEN CHOOSE i \in 1..Len(xs) : xs[i][key] = k
    ELSE 0

\* Lines 88-95 for one file with metadata md: log_collections after them.
AddFile(lc, fname, md) ==
    LET ti == IndexOf(lc, "log_type", md.log_path)
        lc1 == IF ti = 0 THEN Append(lc, [log_type |-> md.log_path, schemas |-> <<>>])
               ELSE lc
        t == IF ti = 0 THEN Len(lc1) ELSE ti
        schema_key == JoinBar(md.fields)
        si == IndexOf(lc1[t].schemas, "schema_key", schema_key)
        sch1 == IF si = 0
                THEN Append(lc1[t].schemas,
                            [schema_key |-> schema_key, fields |-> md.fields,
                             types |-> md.types, files |-> <<>>])
                ELSE lc1[t].schemas
        k == IF si = 0 THEN Len(sch1) ELSE si
        sch2 == [sch1 EXCEPT ![k].files = Append(@, fname)]
    IN  [lc1 EXCEPT ![t].schemas = sch2]

\* zip(info['fields'], info['types']), line 141: the names that get a column.
ZipFields(fields, types) ==
    SubSeq(fields, 1, IF Len(fields) <= Len(types) THEN Len(fields) ELSE Len(types))

\* One select statement of a view, lines 136-225: its select list, the
\* provenance literal and the files read_csv scans.
SelectStatement(info) ==
    [ cols |-> ZipFields(info.fields, info.types) \o <<"schema_source">>,
      schema_source |-> info.files[1],
      files |-> info.files ]

\* CREATE VIEW "<log_type>" AS <select> UNION ALL BY NAME <select> ..., line 228.
CreateView(entry) ==
    [ name |-> entry.log_type,
      selects |-> [i \in 1..Len(entry.schemas) |-> SelectStatement(entry.schemas[i])] ]

\* The columns of a view: the names of its select lists, each once (union by name).
ViewColumns(view) ==
    UNION { {view.selects[i].cols[j] : j \in 1..Len(view.selects[i].cols)} :
            i \in 1..Len(view.selects) }

\* A row of the view that comes from its i-th select statement: the columns that
\* statement does not select are NULL.
ViewRow(view, i) ==
    LET own == {view.selects[i].cols[j] : j \in 1..Len(view.selects[i].cols)}
    IN  [c \in ViewColumns(view) |-> IF c \in own THEN "cell" ELSE "NULL"]

\* Candidate files.
MaxFiles == 3
PathPool == << <<97>>, <<97, 98>>, <<98>>, <<98, 97>>, <<99>> >>
Paths == {PathPool[i] : i \in 1..MaxFiles}

Header(name, fields, types) ==
    <<OtherLine, Line(<<"#path", name>>), Line(<<"#fields">> \o fields),
      Line(<<"#types">> \o types)>>

HeaderPool ==
    { Header("conn", <<"ts", "uid">>, <<"time", "string">>),
      Header("conn", <<"ts", "uid">>, <<"time", "count">>),
      Header("conn", <<"ts", "uid", "service">>, <<"time", "string", "string">>),
      Header("dns", <<"ts", "uid">>, <<"time", "string">>),
      Header("conn", <<"ts|uid">>, <<"string">>),
      Header("conn", <<"ts", "uid">>, <<"time">>),
      Header("conn", <<"ts", "schema_source">>, <<"time", "string">>),
      Header("conn", <<"ts", "ts">>, <<"time", "time">>),
      <<OtherLine, OtherLine>> }

\* Every order in which the walk can yield the candidate files.
WalkOrders ==
    { w \in [1..Cardinality(Paths) -> Paths] :
        \A i, j \in 1..Cardinality(Paths) : i # j => w[i] # w[j] }

GroupInit ==
    /\ pc = "walk"
    /\ fs \in [Paths -> HeaderPool]
    /\ all_files = <<>>
    /\ gidx = 0
    /\ log_collections = <<>>
    /\ views = <<>>
    /\ run = 1
    /\ first = <<>>
    /\ ScanIdle /\ CodecIdle /\ StreamIdle

\* Lines 46-78: the walk adds every matching file to all_files.
Walk ==
    /\ pc = "walk"
    /\ \E w \in WalkOrders : all_files' = w
    /\ pc' = "sort"
    /\ UNCHANGED <<fs, gidx, log_collections, views, run, first, scanVars, codecVars, streamVars>>

\* Lines 80-82.
Sort ==
    /\ pc = "sort"
    /\ all_files' = SortedFiles(all_files)
    /\ log_collections' = <<>>
    /\ gidx' = 1
    /\ pc' = "group"
    /\ UNCHANGED <<fs, views, run, first, scanVars, codecVars, streamVars>>

\* One iteration of the loop of lines 84-95.
GroupFile ==
    /\ pc = "group"
    /\ gidx <= Len(all_files)
    /\ LET fname == all_files[gidx]
           md == get_log_metadata(fs[fname])
       IN  log_collections' = IF md.ok THEN AddFile(log_collections, fname, md)
                              ELSE log_collections
    /\ gidx' = gidx + 1
    /\ UNCHANGED <<pc, fs, all_files, views, run, first, scanVars, codecVars, streamVars>>

\* The loop of lines 84-95 ends.
GroupDone ==
    /\ pc = "group"
    /\ gidx > Len(all_files)
    /\ gidx' = 1
    /\ pc' = "views"
    /\ UNCHANGED <<fs, all_files, log_collections, views, run, first, scanVars, codecVars, streamVars>>

\* One iteration of the loop of lines 134-230.
BuildView ==
    /\ pc = "views"
    /\ gidx <= Len(log_collections)
    /\ views' = Append(views, CreateView(log_collections[gidx]))
    /\ gidx' = gidx + 1
    /\ UNCHANGED <<pc, fs, all_files, log_collections, run, first, scanVars, codecVars, streamVars>>

\* The views are built; the first run is followed by a second one over the same files.
ViewsDone ==
    /\ pc = "views"
    /\ gidx > Len(log_collections)
    /\ IF run = 1
       THEN /\ first' = [log_collections |-> log_collections, views |-> views]
            /\ run' = 2
            /\ all_files' = <<>>
            /\ log_collections' = <<>>
            /\ views' = <<>>
            /\ gidx' = 0
            /\ pc' = "walk"
       ELSE /\ pc' = "built"
            /\ UNCHANGED <<first, run, all_files, log_collections, views, gidx>>
    /\ UNCHANGED <<fs, scanVars, codecVars, streamVars>>

GroupNext == Walk \/ Sort \/ GroupFile \/ GroupDone \/ BuildView \/ ViewsDone

SpecGroup == GroupInit /\ [][GroupNext]_vars

(***************************************************************************)
(* The codec: a value of a column is formatted (lines 251-293) and the     *)
(* text is read back through the column's select expression (148-218).     *)
(***************************************************************************)
\* Longest list among the values.
MaxListLen == 2

ElemTypes == {<<"addr">>, <<"bool">>, <<"string">>, <<"count">>}

ColTypes ==
    {<<"bool">>, <<"addr">>, <<"subnet">>}
    \cup {<<"vector[">> \o e \o <<"]">> : e \in ElemTypes}
    \cup {<<"set[">> \o e \o <<"]">> : e \in ElemTypes}

\* The non-null values the engine holds in a column of scalar type t.
ScalarValues(t) ==
    CASE t = <<"subnet">> -> {InetV(1, 167772160, 24), InetV(1, 167772160, FullMask(1))}
      [] type_map(t) = "INET" ->
            {InetV(1, 167772161, FullMask(1)), InetV(1, 167772162, FullMask(1)),
             InetV(2, 1, FullMask(2))}
      [] type_map(t) = "BOOLEAN" -> {BoolV(TRUE), BoolV(FALSE)}
      [] type_map(t) = "BIGINT" -> {IntV(1), IntV(2)}
      [] type_map(t) = "DOUBLE" -> {FloatV("1.5")}
      [] OTHER -> {StrV(<<"a">>), StrV(<<"b">>)}

\* The values the engine holds in a column of declared type t: NULL, a scalar, or
\* a list whose elements are scalars or NULL.
ValuesOf(t) ==
    IF is_vector(t) \/ is_set(t)
    THEN {NoneV} \cup
         { ListV(items) :
             items \in UNION { [1..n -> ScalarValues(elem_type(t)) \cup {NoneV}] :
                               n \in 0..MaxListLen } }
    ELSE {NoneV} \cup ScalarValues(t)

\* Raw cells of a log file.
RawCells ==
    { NullCell, Cell(<<"-">>), Cell(<<"(empty)">>), Cell(<<>>),
      Cell(<<"[", "]">>), Cell(<<"{", "}">>),
      Cell(<<"[", "10.0.0.1", ",", "10.0.0.2", "]">>),
      Cell(<<"{", "10.0.0.1", ",", " ", "::1", "}">>),
      Cell(<<"[", "T", ",", "F", "]">>),
      Cell(<<"{", "a", ",", "b", "}">>),
      Cell(<<"[", "1", ",", "x", "]">>),
      Cell(<<"not-an-ip">>), Cell(<<"10.0.0.0/24">>), Cell(<<"T">>) }

CodecInit ==
    /\ pc = "format"
    /\ colType \in ColTypes
    /\ val \in ValuesOf(colType)
    /\ raw \in RawCells
    /\ text = <<>>
    /\ back = NoneV
    /\ dec = NoneV
    /\ ScanIdle /\ GroupIdle /\ StreamIdle

\* The formatter writes the value.
Format ==
    /\ pc = "format"
    /\ text' = FormatValue(val)
    /\ pc' = "reread"
    /\ UNCHANGED <<colType, val, back, raw, dec, scanVars, groupVars, streamVars>>

\* The written text is read as a cell of a column of the same declared type.
Reread ==
    /\ pc = "reread"
    /\ back' = Decode(Cell(text), colType)
    /\ pc' = "read"
    /\ UNCHANGED <<colType, val, text, raw, dec, scanVars, groupVars, streamVars>>

\* A raw cell of a log file is read.
ReadRaw ==
    /\ pc = "read"
    /\ dec' = Decode(raw, colType)
    /\ pc' = "decoded"
    /\ UNCHANGED <<colType, val, text, back, raw, scanVars, groupVars, streamVars>>

CodecNext == Format \/ Reread \/ ReadRaw

SpecCodec == CodecInit /\ [][CodecNext]_vars

(***************************************************************************)
(* Claims about the codec, checked under SpecCodec.                        *)
(***************************************************************************)
IsContainer(t) == is_vector(t) \/ is_set(t)

\* C4: round-trip law.  For every value of category boolean, network address
\* (subnet values included) or container (vector and set columns alike), reading
\* the formatter's text back under the column's declared type yields the value again.
C4_RoundTrip ==
    (pc \in {"read", "decoded"} /\ val.k \in {"bool", "dict", "list"}) => back = val

\* C8: per-element re-encoding.  The text of a list is "[" , the elements each
\* formatted by the rules of a top-level value (NULL as "-", booleans as "T" / "F",
\* addresses as address text) and joined by commas in their order, "]".
C8_PerElementEncoding ==
    (pc # "format" /\ val.k = "list") =>
        text = <<"[">> \o JoinComma([i \in 1..Len(val.items) |-> FormatValue(val.items[i])])
                     \o <<"]">>

\* The raw cells C9 is about: the null sentinel, the empty marker, the empty
\* string, an absent value, and the empty-container token of the column's kind.
ContainerNullCells(t) ==
    {NullCell, Cell(<<"-">>), Cell(<<"(empty)">>), Cell(<<>>),
     Cell(<<bracket_start(t), bracket_end(t)>>)}

\* C9: container null cases.  In every container column, whatever its element
\* type, each of those raw cells decodes to NULL.
C9_ContainerNullCases ==
    (pc = "decoded" /\ IsContainer(colType) /\ raw \in ContainerNullCells(colType))
        => dec = NoneV

(***************************************************************************)
(* Claims about the header scanner, checked under SpecScan.                *)
(***************************************************************************)
\* The lines the scanner can read: those within the budget, before the stream
\* ends and before a read fails.
ReadableLines(lines) ==
    { i \in 1..Len(lines) : i <= ScanBudget /\ \A j \in 1..i : ~lines[j].err }

\* The three directives all appear, each with a payload, among the readable lines.
AllThreeAppear(lines) ==
    /\ \E i \in ReadableLines(lines) :
          StartsWithPath(lines[i]) /\ Len(lines[i].toks) >= 2 /\ lines[i].toks[2] # ""
    /\ \E i \in ReadableLines(lines) :
          StartsWithFields(lines[i]) /\ Len(lines[i].toks) >= 2
    /\ \E i \in ReadableLines(lines) :
          StartsWithTypes(lines[i]) /\ Len(lines[i].toks) >= 2

\* C2: get_log_metadata returns metadata if and only if #path, #fields and #types
\* all appear with a payload within the first 15 lines, in whatever order; in
\* every other case it returns the 'no metadata' result.
C2_HeaderScanner ==
    pc = "scanned" => (scanResult.ok <=> AllThreeAppear(scanLines))

(***************************************************************************)
(* Claims about grouping and the views, checked under SpecGroup.           *)
(***************************************************************************)
\* The variants stored in a log_collections value, each with its logical type.
Variants(lc) ==
    UNION { { [log_type |-> lc[t].log_type, info |-> lc[t].schemas[s]] :
                s \in 1..Len(lc[t].schemas) } : t \in 1..Len(lc) }

Range(xs) == {xs[i] : i \in 1..Len(xs)}

\* The variants whose files hold path f, counted with multiplicity.
Holding(lc, f) ==
    { <<t, s, i>> \in (1..Len(lc)) \X (1..Cardinality(Paths)) \X (1..Cardinality(Paths)) :
        /\ s <= Len(lc[t].schemas)
        /\ i <= Len(lc[t].schemas[s].files)
        /\ lc[t].schemas[s].files[i] = f }

\* C3: after grouping, every file with metadata is in the files of exactly one
\* variant, the variant of its own logical type whose field sequence is the
\* file's own; two files of one logical type share a variant exactly when their
\* field sequences are equal; files without metadata are in no variant.
C3_GrouperPartition ==
    pc \in {"views", "built"} =>
        /\ \A f \in Paths :
              LET md == get_log_metadata(fs[f])
                  h == Holding(log_collections, f)
              IN  IF md.ok
                  THEN /\ Cardinality(h) = 1
                       /\ \A p \in h :
                             /\ log_collections[p[1]].log_type = md.log_path
                             /\ log_collections[p[1]].schemas[p[2]].fields = md.fields
                  ELSE h = {}
        /\ \A f, g \in Paths :
              LET mf == get_log_metadata(fs[f])
                  mg == get_log_metadata(fs[g])
              IN  (mf.ok /\ mg.ok /\ mf.log_path = mg.log_path) =>
                     ((\E v \in Variants(log_collections) :
                          f \in Range(v.info.files) /\ g \in Range(v.info.files))
                      <=> mf.fields = mg.fields)

NoDuplicates(xs) == \A i, j \in 1..Len(xs) : i # j => xs[i] # xs[j]

\* C10: in every state of the grouping run and when the views are built, every
\* stored variant has as many types as fields and no field name twice.
C10_VariantWellFormed ==
    \A v \in Variants(log_collections) :
        /\ Len(v.info.fields) = Len(v.info.types)
        /\ NoDuplicates(v.info.fields)

\* The fields the variants of one logical type declare.
DeclaredFields(entry) ==
    UNION { Range(entry.schemas[s].fields) : s \in 1..Len(entry.schemas) }

\* C1: the view of every logical type exposes exactly the union of the fields its
\* variants declare plus the one provenance column, and a row from a variant that
\* lacks a field reports NULL for it.
C1_UnionByNameTotality ==
    \A n \in 1..Len(views) :
        LET view == views[n]
            entry == log_collections[n]
            declared == DeclaredFields(entry)
        IN  /\ view.name = entry.log_type
            /\ ViewColumns(view) = declared \cup {"schema_source"}
            /\ Cardinality(ViewColumns(view)) = Cardinality(declared) + 1
            /\ \A s \in 1..Len(entry.schemas) : \A c \in declared :
                  c \notin Range(entry.schemas[s].fields) => ViewRow(view, s)[c] = "NULL"

\* The smallest path of a non-empty sequence of paths.
MinPath(files) == CHOOSE p \in Range(files) : \A q \in Range(files) : ~LexLess(q, p)

\* C7: the grouping depends only on the set of candidate files.  Two runs over the
\* same files, whatever order each walk yields them in, build the same logical
\* types, variants in the same order, the same files order, types and provenance;
\* types and provenance are those of the smallest path of the variant.
C7_GroupingDeterminism ==
    pc = "built" =>
        /\ first.log_collections = log_collections
        /\ first.views = views
        /\ \A v \in Variants(log_collections) \cup Variants(first.log_collections) :
              /\ v.info.files[1] = MinPath(v.info.files)
              /\ v.info.types = get_log_metadata(fs[MinPath(v.info.files)]).types
        /\ \A n \in 1..Len(views) : \A s \in 1..Len(views[n].selects) :
              /\ views[n].selects[s].schema_source = MinPath(views[n].selects[s].files)
              /\ views[n].selects[s].files = log_collections[n].schemas[s].files

\* C7's case: both runs are done, a logical type has two variants, and a variant
\* holds two files whose headers declare different types.
C7_Witness ==
    /\ pc = "built"
    /\ \E t \in 1..Len(log_collections) : Len(log_collections[t].schemas) = 2
    /\ \E v \in Variants(log_collections) :
          /\ Len(v.info.files) = 2
          /\ get_log_metadata(fs[v.info.files[2]]).types # v.info.types

(***************************************************************************)
(* Execution and streaming, lines 235-300.  A printed line is the sequence *)
(* of its tab-separated cells.                                             *)
(***************************************************************************)
\* res.fetchmany(1000), line 245.
PageSize == 1000

\* Most full pages a result holds.
MaxPages == 2

RowCounts ==
    {0, 1, PageSize - 1, PageSize, PageSize + 1}
    \cup {p * PageSize : p \in 2..MaxPages} \cup {p * PageSize + 1 : p \in 2..MaxPages}

\* The values the second column of the result cycles through.
CellPool ==
    << NoneV, BoolV(TRUE), BoolV(FALSE), InetV(1, 167772161, FullMask(1)),
       InetV(2, 1, FullMask(2)), StrV(<<"a">>),
       ListV(<<InetV(1, 167772161, FullMask(1)), InetV(1, 167772162, FullMask(1))>>) >>

\* The i-th row of the cursor: its number and a value.
CursorRow(i) == <<IntV(i), CellPool[(i % Len(CellPool)) + 1]>>

\* "\t".join([d[0] for d in res.description]), line 242.
HeaderLine(desc) == [i \in 1..Len(desc) |-> <<desc[i]>>]

\* The formatted row that line 294 prints, lines 250-293.
FormatRow(row) == [i \in 1..Len(row) |-> FormatValue(row[i])]

\* A formatter that prints the header line before con.execute has returned.
HeaderBeforeExecute(out, desc) == Append(out, HeaderLine(desc))

\* The result stream after line 241 raised: nothing was printed.
StdoutOnExecuteError(out, desc) == out

\* A cursor that loses the first row of every page after the first.
FetchManySkipping(pos, n) ==
    [lo |-> IF pos > 0 THEN pos + 2 ELSE pos + 1,
     hi |-> IF pos + PageSize <= n THEN pos + PageSize ELSE n]

\* res.fetchmany(1000) with pos rows handed out of n: the rows of the next page.
FetchMany(pos, n) ==
    [lo |-> pos + 1, hi |-> IF pos + PageSize <= n THEN pos + PageSize ELSE n]

SqlError == "SQL Error"
Summary == "--- Summary ---"

StreamInit ==
    /\ pc = "execute"
    /\ description \in {<<"n", "v">>, <<"id", "resp_h">>}
    /\ nrows \in RowCounts
    /\ res = "none"
    /\ fetched = 0
    /\ chunk = [lo |-> 1, hi |-> 0]
    /\ stdout = <<>>
    /\ stderr = <<"--- Streaming Results ---">>
    /\ row_count = 0
    /\ ScanIdle /\ CodecIdle /\ GroupIdle

\* Lines 241-242: the query executes and the header line is printed.
Execute ==
    /\ pc = "execute"
    /\ res' = "cursor"
    /\ stdout' = Append(stdout, HeaderLine(description))
    /\ pc' = "fetch"
    /\ UNCHANGED <<description, nrows, fetched, chunk, stderr, row_count,
                   scanVars, codecVars, groupVars>>

\* Line 241 raises; lines 299-300 report it.
ExecuteRaises ==
    /\ pc = "execute"
    /\ stdout' = StdoutOnExecuteError(stdout, description)
    /\ stderr' = Append(stderr, SqlError)
    /\ pc' = "done"
    /\ UNCHANGED <<description, nrows, res, fetched, chunk, row_count,
                   scanVars, codecVars, groupVars>>

\* Lines 245-246: a page is fetched; an empty page ends the loop, and the
\* summary of lines 297-298 is printed.
Fetch ==
    /\ pc = "fetch"
    /\ LET page == FetchMany(fetched, nrows)
       IN  IF page.lo > page.hi
           THEN /\ stderr' = Append(stderr, Summary)
                /\ pc' = "done"
                /\ UNCHANGED <<fetched, chunk>>
           ELSE /\ chunk' = page
                /\ fetched' = page.hi
                /\ pc' = "emit"
                /\ UNCHANGED stderr
    /\ UNCHANGED <<description, nrows, res, stdout, row_count,
                   scanVars, codecVars, groupVars>>

\* Line 245 raises; lines 299-300 report it.
FetchRaises ==
    /\ pc = "fetch"
    /\ stderr' = Append(stderr, SqlError)
    /\ pc' = "done"
    /\ UNCHANGED <<description, nrows, res, fetched, chunk, stdout, row_count,
                   scanVars, codecVars, groupVars>>

\* Lines 247-295: one row of the page is formatted and printed.
EmitRow ==
    /\ pc = "emit"
    /\ stdout' = Append(stdout, FormatRow(CursorRow(chunk.lo)))
    /\ row_count' = row_count + 1
    /\ chunk' = [chunk EXCEPT !.lo = @ + 1]
    /\ pc' = IF chunk.lo + 1 > chunk.hi THEN "fetch" ELSE "emit"
    /\ UNCHANGED <<description, nrows, res, fetched, stderr,
                   scanVars, codecVars, groupVars>>

StreamNext == Execute \/ ExecuteRaises \/ Fetch \/ FetchRaises \/ EmitRow

SpecStream == StreamInit /\ [][StreamNext]_vars

(***************************************************************************)
(* Claims about streaming, checked under SpecStream.                       *)
(***************************************************************************)
Failed == SqlError \in Range(stderr)

\* The result stream is the header line followed by the first n rows of the
\* cursor, in cursor order, each once.
CursorLines == [i \in 1..(MaxPages * PageSize + 1) |-> FormatRow(CursorRow(i))]
HeaderAndRows(n) == stdout = <<HeaderLine(description)>> \o SubSeq(CursorLines, 1, n)

\* C5: once the query has executed, the output is one header line, printed before
\* any data line, then one line per cursor row in cursor order, none dropped,
\* doubled or moved across the page boundaries; the loop ends when a fetch
\* returns an empty page, with every row printed.
C5_StreamOrdering ==
    /\ res = "cursor" => HeaderAndRows(row_count)
    /\ (res = "cursor" /\ pc = "fetch") => row_count = fetched
    /\ (pc = "done" /\ ~Failed) =>
          /\ row_count = nrows
          /\ FetchMany(fetched, nrows).lo > FetchMany(fetched, nrows).hi

\* C5's case: a result of more than one page has been streamed to its end.
C5_Witness ==
    /\ pc = "done"
    /\ ~Failed
    /\ nrows > PageSize
    /\ Len(stdout) = nrows + 1

\* C6: when con.execute fails, nothing is written to the result stream, the error
\* is on the side channel and the run is over; when a fetch fails, the result
\* stream is the header and a prefix of the cursor's rows, each a whole line, and
\* nothing follows the failure.
C6_FailureSurface ==
    Failed =>
        /\ pc = "done"
        /\ ~ENABLED StreamNext
        /\ stderr[Len(stderr)] = SqlError
        /\ IF res = "none" THEN stdout = <<>>
           ELSE /\ row_count <= nrows
                /\ HeaderAndRows(row_count)
                /\ \A i \in 1..Len(stdout) : Len(stdout[i]) = Len(description)

\* C6's two cases: a failed execute, and a fetch that fails after a full page.
C6_Witness ==
    /\ Failed
    /\ res = "cursor"
    /\ row_count = PageSize
    /\ nrows > PageSize

C6_WitnessExecute == Failed /\ res = "none" /\ pc = "done"

(***************************************************************************)
(* The stages together: every stage from each of its inputs.               *)
(***************************************************************************)
Init == ScanInit \/ CodecInit \/ GroupInit \/ StreamInit

Next == ScanNext \/ CodecNext \/ GroupNext \/ StreamNext

Spec == Init /\ [][Next]_vars

====
